---- MODULE Spec2Model ----
(***************************************************************************)
(* A model of app.py, the restaurant-map application: the restaurants      *)
(* table of restaurants.db (init_db, insert/update/delete/toggle, fetch),  *)
(* the save / delete / favourite handlers of the pages, the CSV export and *)
(* import of the data page, the address lookup of the add page, and the    *)
(* filters, the search and the sort of the map and list pages.             *)
(*                                                                         *)
(* Values.  A Python / SQL value is a tagged record: None (Python None,    *)
(* SQL NULL), NaN (the float nan pandas gives a missing cell), Str(s) (a   *)
(* text, s a sequence of one-character strings) and Num(n) (a number).     *)
(* lat and lon are numbers in whole units, rating is in half stars (the    *)
(* slider's step of 0.5 is 1, its maximum 5.0 is RatingMax = 10), and a    *)
(* timestamp is the number of clock ticks since the model started.         *)
(***************************************************************************)
EXTENDS Integers, Sequences, FiniteSets, TLC

\* ------------------------------------------------------------------ bounds

\* The largest id AUTOINCREMENT hands out in a run.
MaxSeq == 2
\* The last tick of the clock (CURRENT_TIMESTAMP).
MaxTime == 1

\* ------------------------------------------------------------------ values

None == [k |-> "None"]
NaN == [k |-> "NaN"]
Str(s) == [k |-> "str", s |-> s]
Num(n) == [k |-> "num", n |-> n]

IsStr(v) == v.k = "str"
IsNum(v) == v.k = "num"

EmptyStr == Str(<< >>)

\* str.strip(): whitespace removed at both ends.
RECURSIVE lstrip(_)
lstrip(s) ==
    IF s # << >> /\ Head(s) = " " THEN lstrip(Tail(s)) ELSE s

RECURSIVE rstrip(_)
rstrip(s) ==
    IF s # << >> /\ s[Len(s)] = " " THEN rstrip(SubSeq(s, 1, Len(s) - 1)) ELSE s

strip(v) == Str(rstrip(lstrip(v.s)))

\* The decimal digits of a natural number, as str() prints an int.
Digit(d) == <<"0", "1", "2", "3", "4", "5", "6", "7", "8", "9">>[d + 1]

RECURSIVE NatToStr(_)
NatToStr(n) ==
    IF n < 10 THEN << Digit(n) >> ELSE NatToStr(n \div 10) \o << Digit(n % 10) >>

\* Python's str(value) for a value that is not None: a text is itself, the
\* float nan prints as the three letters "nan", a number prints its digits.
PyStr(v) ==
    CASE v.k = "str" -> v
      [] v.k = "NaN" -> Str(<<"n", "a", "n">>)
      [] v.k = "num" -> Str(IF v.n < 0 THEN <<"-">> \o NatToStr(-v.n) ELSE NatToStr(v.n))
      [] OTHER -> Str(<<"N", "o", "n", "e">>)

\* safe_str: None becomes the empty text, anything else goes through str().
safe_str(value) ==
    IF value = None THEN EmptyStr ELSE PyStr(value)

\* ------------------------------------------------------------------ schema

DataCols ==
    {"name", "category", "memo", "lat", "lon", "address", "phone", "url",
     "price_range", "rating", "tags"}

MigratedCols == {"favorite", "created_at", "updated_at"}

AllCols == {"id"} \cup DataCols \cup MigratedCols

\* The slider of the form: 0.0 .. 5.0 in steps of 0.5, counted in half stars.
RatingMax == 10

DEFAULT_LAT == 37
DEFAULT_LON == 126

\* ------------------------------------------------------------------ store

(***************************************************************************)
(* The database file is a record D = [cols, rows, seq]: the columns of     *)
(* table restaurants (empty when the table does not exist), its rows (a    *)
(* set of functions from cols to values) and the sqlite_sequence counter   *)
(* of the AUTOINCREMENT primary key.  A store function returns             *)
(* [db, out]: the file after the call and "ok" or the exception raised.    *)
(***************************************************************************)

Ok(D) == [db |-> D, out |-> "ok"]
Raise(D, e) == [db |-> D, out |-> e]

\* ALTER TABLE restaurants ADD COLUMN c ... DEFAULT d: every row gets d.
AddColumn(D, c, d) ==
    [D EXCEPT !.cols = @ \cup {c},
              !.rows = {r @@ (c :> d) : r \in @}]

\* CREATE TABLE IF NOT EXISTS restaurants (...).
CreateTableIfNotExists(D) ==
    IF D.cols = {} THEN [D EXCEPT !.cols = AllCols] ELSE D

\* ALTER TABLE ... ADD COLUMN created_at TIMESTAMP DEFAULT CURRENT_TIMESTAMP:
\* SQLite refuses a non-constant default for a table that has rows
\* ("Cannot add a column with non-constant default").
AddCreatedAt(D, t) ==
    IF D.rows # {}
    THEN Raise(D, "OperationalError")
    ELSE Ok(AddColumn(D, "created_at", Num(t)))

\* init_db: the statements run one by one, each ALTER TABLE taking effect at
\* once; an exception leaves what ran before it in place.
init_db(D, t) ==
    LET D1 == CreateTableIfNotExists(D)
        D2 == IF "favorite" \notin D1.cols THEN AddColumn(D1, "favorite", Num(0)) ELSE D1
        R3 == IF "created_at" \notin D1.cols THEN AddCreatedAt(D2, t) ELSE Ok(D2)
        D4 == IF "updated_at" \notin D1.cols
              THEN AddColumn(R3.db, "updated_at", None)
              ELSE R3.db
    IN  IF R3.out # "ok" THEN R3 ELSE Ok(D4)

\* A value SQLite stores as NULL: None, and the float nan.
BindsNull(v) == v \in {None, NaN}

\* name, lat and lon are NOT NULL.
NotNullOk(a) ==
    ~BindsNull(a.name) /\ ~BindsNull(a.lat) /\ ~BindsNull(a.lon)

\* What a bound parameter is stored as.
Bind(v) == IF BindsNull(v) THEN None ELSE v

\* The id AUTOINCREMENT assigns: one more than the largest ever assigned.
NewId(D) == D.seq + 1

\* insert_restaurant with lat and lon in each other's place in the tuple of
\* parameters.
insert_restaurant_swapped(D, t, a) ==
    IF ~NotNullOk(a)
    THEN Raise(D, "IntegrityError")
    ELSE LET row == [c \in AllCols |->
                        CASE c = "id" -> Num(NewId(D))
                          [] c = "favorite" -> Num(0)
                          [] c = "created_at" -> Num(t)
                          [] c = "updated_at" -> None
                          [] c = "lat" -> Bind(a.lon)
                          [] c = "lon" -> Bind(a.lat)
                          [] OTHER -> Bind(a[c])]
         IN  Ok([D EXCEPT !.rows = @ \cup {row}, !.seq = NewId(D)])

\* insert_restaurant: INSERT ... VALUES (?, ..., 0); created_at takes its
\* default CURRENT_TIMESTAMP and updated_at stays NULL.
insert_restaurant(D, t, a) ==
    IF ~NotNullOk(a)
    THEN Raise(D, "IntegrityError")
    ELSE LET row == [c \in AllCols |->
                        CASE c = "id" -> Num(NewId(D))
                          [] c = "favorite" -> Num(0)
                          [] c = "created_at" -> Num(t)
                          [] c = "updated_at" -> None
                          [] OTHER -> Bind(a[c])]
         IN  Ok([D EXCEPT !.rows = @ \cup {row}, !.seq = NewId(D)])

\* The row an INSERT OR REPLACE in place of the UPDATE would write: the
\* columns not named take their defaults again.
UpdatedRowReplaced(r, t, a) ==
    [c \in DOMAIN r |->
        IF c \in DataCols THEN Bind(a[c])
        ELSE IF c = "updated_at" THEN Num(t)
        ELSE IF c = "favorite" THEN Num(0)
        ELSE r[c]]

\* The row UPDATE ... SET name = ?, ..., updated_at = CURRENT_TIMESTAMP writes.
UpdatedRow(r, t, a) ==
    [c \in DOMAIN r |->
        IF c \in DataCols THEN Bind(a[c])
        ELSE IF c = "updated_at" THEN Num(t)
        ELSE r[c]]

\* update_restaurant: UPDATE ... WHERE id = ?; no row matching is no error.
update_restaurant(D, t, restaurant_id, a) ==
    IF (\E r \in D.rows : r.id = Num(restaurant_id)) /\ ~NotNullOk(a)
    THEN Raise(D, "IntegrityError")
    ELSE Ok([D EXCEPT !.rows =
                {IF r.id = Num(restaurant_id) THEN UpdatedRow(r, t, a) ELSE r : r \in @}])

\* A DELETE FROM restaurants without its WHERE clause.
delete_restaurant_all(D, restaurant_id) ==
    Ok([D EXCEPT !.rows = {}])

\* delete_restaurant: DELETE FROM restaurants WHERE id = ?.
delete_restaurant(D, restaurant_id) ==
    Ok([D EXCEPT !.rows = {r \in @ : r.id # Num(restaurant_id)}])

\* The row UPDATE restaurants SET favorite = ? writes.
FavoriteRow(r, new_value) == [r EXCEPT !.favorite = Num(new_value)]

\* toggle_favorite: UPDATE restaurants SET favorite = ? WHERE id = ?.
toggle_favorite(D, restaurant_id, new_value) ==
    Ok([D EXCEPT !.rows =
            {IF r.id = Num(restaurant_id) THEN FavoriteRow(r, new_value) ELSE r : r \in @}])

\* fetch_restaurant_by_id: the row, or None.
fetch_restaurant_by_id(D, restaurant_id) ==
    IF \E r \in D.rows : r.id = Num(restaurant_id)
    THEN CHOOSE r \in D.rows : r.id = Num(restaurant_id)
    ELSE None

\* ORDER BY created_at DESC, id DESC: r comes before q.  NULL sorts lowest.
SortKey(v) == IF IsNum(v) THEN v.n ELSE -1

Before(r, q) ==
    \/ SortKey(r.created_at) > SortKey(q.created_at)
    \/ SortKey(r.created_at) = SortKey(q.created_at) /\ r.id.n > q.id.n

RECURSIVE OrderRows(_)
OrderRows(S) ==
    IF S = {} THEN << >>
    ELSE LET first == CHOOSE r \in S : \A q \in S \ {r} : Before(r, q)
         IN  << first >> \o OrderRows(S \ {first})

\* fetch_all_restaurants: SELECT * ... ORDER BY created_at DESC, id DESC.
fetch_all_restaurants(D) == OrderRows(D.rows)

\* -------------------------------------------------------------------- CSV

(***************************************************************************)
(* A CSV file is [header, rows]: the column names of its first line and,   *)
(* per line, the cell written under each name.  A cell is a text, Str(s),  *)
(* or the text of a number, Num(n): printing a number and parsing it back  *)
(* give the same number.  The texts of the model hold no digit, so pandas  *)
(* never reads a text column as a numeric one.                             *)
(***************************************************************************)

\* The columns in the order of CREATE TABLE.
ColumnOrder ==
    <<"id", "name", "category", "memo", "lat", "lon", "address", "phone", "url",
      "price_range", "rating", "tags", "favorite", "created_at", "updated_at">>

Range(f) == {f[i] : i \in DOMAIN f}

\* DataFrame.to_csv writes a missing value (None, nan) as an empty cell.
CsvCell(v) == IF v \in {None, NaN} THEN EmptyStr ELSE v

\* df_all.to_csv(csv_buffer, index=False)
to_csv(df) ==
    [header |-> ColumnOrder,
     rows   |-> [i \in DOMAIN df |-> [c \in Range(ColumnOrder) |-> CsvCell(df[i][c])]]]

\* The cell texts pandas.read_csv takes for a missing value, among the texts
\* of the model: the empty cell and "nan".
NaStrings == {<< >>, <<"n", "a", "n">>}

ParseCell(cell) ==
    IF IsStr(cell) /\ cell.s \in NaStrings THEN NaN ELSE cell

\* pd.read_csv(uploaded): one row per line, a missing cell read as nan.
read_csv(file) ==
    [i \in DOMAIN file.rows |->
        [c \in Range(file.header) |-> ParseCell(file.rows[i][c])]]

\* row.get(key, default)
Get(row, key, default) == IF key \in DOMAIN row THEN row[key] ELSE default

\* pd.notna(value)
notna(v) == v \notin {None, NaN}

\* float(value) succeeds on a number and on nan; a text that is no number
\* raises ValueError.
FloatOk(v) == v.k \in {"num", "NaN"}

\* The arguments page_data passes to insert_restaurant for one CSV row.
ImportArgs(row) ==
    [c \in DataCols |->
        CASE c = "lat" -> Get(row, "lat", Num(DEFAULT_LAT))
          [] c = "lon" -> Get(row, "lon", Num(DEFAULT_LON))
          [] c = "rating" -> IF notna(Get(row, "rating", None)) THEN row["rating"] ELSE None
          [] OTHER -> strip(safe_str(Get(row, c, EmptyStr)))]

\* One turn of the loop over df_new.iterrows().
ImportRow(D, t, row) ==
    LET a == ImportArgs(row)
    IN  IF ~FloatOk(a.lat) \/ ~FloatOk(a.lon) \/ (a.rating # None /\ ~FloatOk(a.rating))
        THEN Raise(D, "ValueError")
        ELSE insert_restaurant(D, t, a)

\* The loop: every insert commits; an exception ends it where it is.
RECURSIVE ImportRows(_, _, _, _)
ImportRows(D, t, df_new, i) ==
    IF i > Len(df_new) THEN Ok(D)
    ELSE LET r == ImportRow(D, t, df_new[i])
         IN  IF r.out # "ok" THEN r ELSE ImportRows(r.db, t, df_new, i + 1)

RequiredCols == {"name", "lat", "lon"}

\* The merge button without the check of the header.
ImportCsvUnchecked(D, t, file) ==
    ImportRows(D, t, read_csv(file), 1)

\* The merge button of page_data: the header check, then the loop; the
\* except clause turns any exception into an error message.
ImportCsv(D, t, file) ==
    IF ~(RequiredCols \subseteq Range(file.header))
    THEN Raise(D, "ImportFormatError")
    ELSE ImportRows(D, t, read_csv(file), 1)

\* ----------------------------------------------------------------- inputs

\* The first option of build_price_options ("not chosen") and a price tier.
NoPrice == Str(<<"-">>)
PriceLow == Str(<<"w">>)

\* What the user leaves in the widgets of the add / edit form before Save:
\* an untouched form but for the name, a filled form whose name has a
\* leading blank, and a form whose name is only a blank.
BareForm ==
    [name |-> Str(<<"a">>), category |-> EmptyStr, memo |-> EmptyStr,
     lat |-> Num(DEFAULT_LAT), lon |-> Num(DEFAULT_LON), address |-> EmptyStr,
     phone |-> EmptyStr, url |-> EmptyStr, price_range |-> NoPrice,
     rating |-> Num(0), tags |-> EmptyStr]

FullForm ==
    [name |-> Str(<<" ", "b">>), category |-> Str(<<"a">>), memo |-> Str(<<"a", " ", "b">>),
     lat |-> Num(1), lon |-> Num(2), address |-> Str(<<"b">>),
     phone |-> Str(<<"a">>), url |-> Str(<<"b">>), price_range |-> PriceLow,
     rating |-> Num(7), tags |-> Str(<<"a">>)]

BlankNameForm == [BareForm EXCEPT !.name = Str(<<" ">>)]

Forms == {BareForm, FullForm, BlankNameForm}

\* Files a user may upload on the data page.
CsvLine(name, lat, lon) == [name |-> name, lat |-> lat, lon |-> lon]

\* No lon column, no lat column, no name column.
CsvNoLon ==
    [header |-> <<"name", "lat">>,
     rows |-> << [name |-> Str(<<"a">>), lat |-> Num(1)] >>]

CsvNoLat ==
    [header |-> <<"name", "lon">>,
     rows |-> << [name |-> Str(<<"a">>), lon |-> Num(2)] >>]

CsvNoName ==
    [header |-> <<"lat", "lon", "memo">>,
     rows |-> << [lat |-> Num(1), lon |-> Num(2), memo |-> Str(<<"a">>)] >>]

\* A file written by hand: a name that is one blank, six stars.
CsvForeign ==
    [header |-> <<"name", "lat", "lon", "rating">>,
     rows |-> << CsvLine(Str(<<" ">>), Num(1), Num(2)) @@ [rating |-> Num(12)] >>]

\* A good line followed by a line whose lat cell is empty.
CsvEmptyLat ==
    [header |-> <<"name", "lat", "lon">>,
     rows |-> << CsvLine(Str(<<"a">>), Num(DEFAULT_LAT), Num(DEFAULT_LON)),
                 CsvLine(Str(<<"b">>), EmptyStr, Num(2)) >>]

Uploads == {CsvNoLon, CsvNoLat, CsvNoName, CsvForeign, CsvEmptyLat}

\* A table left by an older version of the application: one row, or none.
OldRow ==
    [c \in AllCols |->
        CASE c = "id" -> Num(1)
          [] c = "name" -> Str(<<"a">>)
          [] c = "lat" -> Num(1)
          [] c = "lon" -> Num(2)
          [] c = "favorite" -> Num(1)
          [] c = "created_at" -> Num(0)
          [] c = "rating" -> Num(9)
          [] OTHER -> None]

Restrict(f, S) == [c \in S |-> f[c]]

OldTables ==
    {[cols |-> AllCols \ missing,
      rows |-> {Restrict(r, AllCols \ missing) : r \in rs},
      seq  |-> Cardinality(rs)] :
        missing \in SUBSET MigratedCols, rs \in {{}, {OldRow}}}

NoTable == [cols |-> {}, rows |-> {}, seq |-> 0]

NoArgs == [c \in DataCols |-> None]

\* ------------------------------------------------------------------ state

VARIABLES
    db,         \* restaurants.db: [cols, rows, seq]
    connected,  \* get_connection has returned (the cached connection exists)
    now,        \* the clock CURRENT_TIMESTAMP reads
    last,       \* the last call: [op, out, id, args]
    session_state   \* st.session_state: [current_lat, current_lon]

vars == <<db, connected, now, last, session_state>>

\* A call, what it returned or raised, and the id and the arguments (or the
\* uploaded file) it was given.
Call(op, out, id, args) ==
    [op |-> op, out |-> out, id |-> id, args |-> args]

Ids(D) == {r.id.n : r \in D.rows}

\* init_session_state: the position the form and the map start from.
init_session_state ==
    [current_lat |-> Num(DEFAULT_LAT), current_lon |-> Num(DEFAULT_LON)]

\* The database file found at start-up: none, or a table of this or of an
\* older version.
Init ==
    /\ db \in {NoTable} \cup OldTables
    /\ connected = FALSE
    /\ now = 0
    /\ last = Call("none", "ok", 0, NoArgs)
    /\ session_state = init_session_state

\* CURRENT_TIMESTAMP moves on.
Tick ==
    /\ now < MaxTime
    /\ now' = now + 1
    /\ UNCHANGED <<db, connected, last, session_state>>

\* get_connection: connect and init_db; an exception is not cached, so the
\* next run of the script calls it again.
get_connection ==
    /\ ~connected
    /\ LET r == init_db(db, now)
       IN  /\ db' = r.db
           /\ connected' = (r.out = "ok")
           /\ last' = Call("init_db", r.out, 0, NoArgs)
    /\ UNCHANGED <<now, session_state>>

\* The arguments the Save button of page_add_or_edit passes on.
SaveArgs(w) ==
    [c \in DataCols |->
        CASE c = "price_range" -> IF w.price_range = NoPrice THEN EmptyStr ELSE w.price_range
          [] c = "rating" -> IF w.rating = Num(0) THEN None ELSE w.rating
          [] c \in {"lat", "lon"} -> w[c]
          [] OTHER -> strip(w[c])]

\* if not name.strip(): the error message, and nothing is saved.
NameMissing(w) == strip(w.name) = EmptyStr

\* Save with "new restaurant" selected.
SaveNew(w) ==
    /\ connected
    /\ db.seq < MaxSeq
    /\ IF NameMissing(w)
       THEN /\ db' = db
            /\ last' = Call("insert", "ValidationError", 0, w)
       ELSE LET r == insert_restaurant(db, now, SaveArgs(w))
            IN  /\ db' = r.db
                /\ last' = Call("insert", r.out, NewId(db), SaveArgs(w))
    /\ UNCHANGED <<connected, now, session_state>>

\* Save with a stored restaurant selected (edit_mode and selected_row).
SaveEdit(id, w) ==
    /\ connected
    /\ fetch_restaurant_by_id(db, id) # None
    /\ IF NameMissing(w)
       THEN /\ db' = db
            /\ last' = Call("update", "ValidationError", id, w)
       ELSE LET r == update_restaurant(db, now, id, SaveArgs(w))
            IN  /\ db' = r.db
                /\ last' = Call("update", r.out, id, SaveArgs(w))
    /\ UNCHANGED <<connected, now, session_state>>

\* Card i of the list drawn from D, the table having that many rows.
Card(D, i) == fetch_all_restaurants(D)[i]

\* The delete buttons of page_add_or_edit and of a card of page_list.
DeleteButton(i) ==
    /\ connected
    /\ i <= Cardinality(db.rows)
    /\ LET row == Card(db, i)
           r == delete_restaurant(db, row.id.n)
       IN  /\ db' = r.db
           /\ last' = Call("delete", r.out, row.id.n, NoArgs)
    /\ UNCHANGED <<connected, now, session_state>>

\* A button that only ever switches the favourite on.
NewValOn(row) == 1

\* new_val = 0 if row["favorite"] == 1 else 1
NewVal(row) == IF row.favorite = Num(1) THEN 0 ELSE 1

\* A click on the favourite button of card i of the list drawn from D.
FavoriteClick(D, i) ==
    LET row == Card(D, i)
    IN  toggle_favorite(D, row.id.n, NewVal(row))

\* The favourite button of a card of page_list, then the rerun.
FavoriteButton(i) ==
    /\ connected
    /\ i <= Cardinality(db.rows)
    /\ LET r == FavoriteClick(db, i)
       IN  /\ db' = r.db
           /\ last' = Call("toggle", r.out, Card(db, i).id.n, NoArgs)
    /\ UNCHANGED <<connected, now, session_state>>

\* The backup the download button of page_data offers when df_all is not
\* empty.  Downloading changes nothing in the application; the file is the
\* user's to upload again.
Backups(D) ==
    IF D.rows = {} THEN {} ELSE {to_csv(fetch_all_restaurants(D))}

\* The merge button of page_data on an uploaded file: one written by hand,
\* or the backup just downloaded.
ImportButton ==
    /\ connected
    /\ db.seq < MaxSeq
    /\ \E file \in Uploads \cup Backups(db) :
          /\ db.seq + Len(file.rows) <= MaxSeq
          /\ LET r == ImportCsv(db, now, file)
             IN  /\ db' = r.db
                 /\ last' = Call("import", r.out, 0, file)
    /\ UNCHANGED <<connected, now, session_state>>

Next ==
    \/ Tick
    \/ get_connection
    \/ \E w \in Forms : SaveNew(w)
    \/ \E id \in 1..MaxSeq, w \in Forms : SaveEdit(id, w)
    \/ \E i \in 1..MaxSeq : DeleteButton(i)
    \/ \E i \in 1..MaxSeq : FavoriteButton(i)
    \/ ImportButton

Spec == Init /\ [][Next]_vars

\* ------------------------------------------------- the store called directly

(***************************************************************************)
(* SpecStore: the store functions called with any argument, from every     *)
(* table init_db leaves current: an id that may not exist, a name that may *)
(* be empty, a lat that may be None.                                       *)
(***************************************************************************)

StoreArgs ==
    {SaveArgs(BareForm), SaveArgs(FullForm), [SaveArgs(FullForm) EXCEPT !.lat = None]}

StoreIds == 1..(MaxSeq + 1)

CurrentTables ==
    {init_db(D, 0).db : D \in {T \in {NoTable} \cup OldTables : init_db(T, 0).out = "ok"}}

InitStore ==
    /\ db \in CurrentTables
    /\ connected = TRUE
    /\ now = 0
    /\ last = Call("none", "ok", 0, NoArgs)
    /\ session_state = init_session_state

CallInsert(a) ==
    /\ db.seq < MaxSeq
    /\ LET r == insert_restaurant(db, now, a)
       IN  /\ db' = r.db
           /\ last' = Call("insert", r.out, NewId(db), a)
    /\ UNCHANGED <<connected, now, session_state>>

CallUpdate(id, a) ==
    /\ LET r == update_restaurant(db, now, id, a)
       IN  /\ db' = r.db
           /\ last' = Call("update", r.out, id, a)
    /\ UNCHANGED <<connected, now, session_state>>

CallToggle(id, new_value) ==
    /\ LET r == toggle_favorite(db, id, new_value)
       IN  /\ db' = r.db
           /\ last' = Call("toggle", r.out, id, NoArgs)
    /\ UNCHANGED <<connected, now, session_state>>

CallDelete(id) ==
    /\ LET r == delete_restaurant(db, id)
       IN  /\ db' = r.db
           /\ last' = Call("delete", r.out, id, NoArgs)
    /\ UNCHANGED <<connected, now, session_state>>

NextStore ==
    \/ Tick
    \/ \E a \in StoreArgs : CallInsert(a)
    \/ \E id \in StoreIds, a \in StoreArgs : CallUpdate(id, a)
    \/ \E id \in StoreIds, v \in {0, 1} : CallToggle(id, v)
    \/ \E id \in StoreIds : CallDelete(id)

SpecStore == InitStore /\ [][NextStore]_vars

\* ------------------------------------------------- the position of the form

(***************************************************************************)
(* SpecGeocode: the add page and the map as they set the position kept in  *)
(* st.session_state and save a new restaurant at it.  The provider's reply *)
(* to geolocator.geocode(address) is an input: a Location, None when the   *)
(* address resolves to nothing, or one of the exceptions of geopy.exc.     *)
(* Spec takes the coordinates of a form as the user's input and leaves     *)
(* session_state where init_session_state put it.                          *)
(***************************************************************************)

Location(lat, lon) == [k |-> "Location", latitude |-> Num(lat), longitude |-> Num(lon)]
Raises(e) == [k |-> "raise", e |-> e]

\* geopy.exc: the errors of a geocoding service, all GeocoderServiceError.
GeocoderErrors ==
    {"GeocoderTimedOut", "GeocoderUnavailable", "GeocoderServiceError",
     "GeocoderRateLimited", "GeocoderInsufficientPrivileges"}

\* except (GeocoderUnavailable, GeocoderTimedOut): neither has a subclass.
Caught == {"GeocoderUnavailable", "GeocoderTimedOut"}

Replies ==
    {Location(3, 4), None} \cup {Raises(e) : e \in GeocoderErrors}

\* What the user types in the address field: nothing, blanks, an address.
Addresses == {EmptyStr, Str(<<" ">>), Str(<<"a">>)}

\* What geocode_address returns, or the exception that leaves it.
Returns(lat, lon) == [out |-> "ok", lat |-> lat, lon |-> lon]
Propagates(e) == [out |-> e, lat |-> None, lon |-> None]

\* geocode_address: a blank address is not sent to the provider.
geocode_address(address, reply) ==
    IF strip(address) = EmptyStr THEN Returns(None, None)
    ELSE CASE reply.k = "Location" -> Returns(reply.latitude, reply.longitude)
           [] reply.k = "None" -> Returns(None, None)
           [] reply.k = "raise" ->
                IF reply.e \in Caught THEN Returns(None, None) ELSE Propagates(reply.e)

\* The find-coordinates button of page_add_or_edit: the position found
\* becomes the current position; an exception ends the run of the script.
GeocodeButton(address, reply) ==
    /\ connected
    /\ LET found == geocode_address(address, reply)
       IN  /\ session_state' =
                 IF found.out = "ok" /\ found.lat # None
                 THEN [current_lat |-> found.lat, current_lon |-> found.lon]
                 ELSE session_state
           /\ last' = Call("geocode", found.out, 0,
                           [address |-> address, reply |-> reply,
                            lat |-> found.lat, lon |-> found.lon])
    /\ UNCHANGED <<db, connected, now>>

\* Positions the user types in the number inputs or clicks on the map.
Positions == {<<1, 2>>, <<DEFAULT_LAT, DEFAULT_LON>>}

\* The number inputs of the form, synchronised into the session.
CoordinateInputs(lat, lon) ==
    /\ connected
    /\ session_state' = [current_lat |-> Num(lat), current_lon |-> Num(lon)]
    /\ UNCHANGED <<db, connected, now, last>>

\* A click on the map of page_map.
MapClick(clicked_lat, clicked_lon) ==
    /\ connected
    /\ session_state' = [current_lat |-> Num(clicked_lat), current_lon |-> Num(clicked_lon)]
    /\ UNCHANGED <<db, connected, now, last>>

\* The form of a new restaurant drawn at the current position.
FormAt(w, se) == [w EXCEPT !.lat = se.current_lat, !.lon = se.current_lon]

NextGeocode ==
    \/ Tick
    \/ \E address \in Addresses, reply \in Replies : GeocodeButton(address, reply)
    \/ \E p \in Positions : CoordinateInputs(p[1], p[2])
    \/ \E p \in Positions : MapClick(p[1], p[2])
    \/ \E w \in Forms : SaveNew(FormAt(w, session_state))

SpecGeocode == InitStore /\ [][NextGeocode]_vars

\* ------------------------------------------------------ the list and the map

(***************************************************************************)
(* SpecList: the filters of page_map and the filters, the search and the   *)
(* sort of page_list, over the tables the save and the favourite buttons   *)
(* build from a current table.  df_all is what fetch_all_restaurants       *)
(* returns: a NULL of the table is a missing value of the frame.  What a   *)
(* page shows is recorded in last as the sequence of rows it draws.  The   *)
(* pages are opened at any time of the clock, which then stands still.     *)
(***************************************************************************)

\* The first option of the category selectbox: no category filter.
All == Str(<<"*">>)

\* cat_options: the sentinel and the categories present that are not empty.
cat_options(df_all) ==
    {All} \cup {df_all[i].category : i \in {j \in DOMAIN df_all :
                    notna(df_all[j].category) /\ df_all[j].category # EmptyStr}}

\* filtered[filtered["category"] == selected_cat]
FilterCategory(df, selected_cat) ==
    IF selected_cat # All
    THEN SelectSeq(df, LAMBDA r : r.category = selected_cat)
    ELSE df

\* filtered[filtered["favorite"] == 1]
FilterFavorite(df, show_only_favorite) ==
    IF show_only_favorite
    THEN SelectSeq(df, LAMBDA r : r.favorite = Num(1))
    ELSE df

\* The rating floor applied whatever the threshold is.
FilterRatingAlways(df, min_rating) ==
    SelectSeq(df, LAMBDA r : notna(r.rating) /\ r.rating.n >= min_rating)

\* filtered[(filtered["rating"].notna()) & (filtered["rating"] >= min_rating)];
\* a comparison with a missing value is False.
FilterRating(df, min_rating) ==
    IF min_rating > 0
    THEN SelectSeq(df, LAMBDA r : notna(r.rating) /\ r.rating.n >= min_rating)
    ELSE df

\* str.lower() on the letters of the model.
Lower(c) ==
    CASE c = "A" -> "a"
      [] c = "B" -> "b"
      [] c = "N" -> "n"
      [] OTHER -> c

\* Series.astype(str): str() of every value, a missing one included.
astype_str(v) == PyStr(v)

\* re.compile(pat) fails on a group that is opened and never closed (the
\* texts of the model hold no closing parenthesis).
ReError(pat) == \E j \in DOMAIN pat.s : pat.s[j] = "("

\* Series.str.contains(pat, case=False): pat is a regular expression,
\* searched for anywhere in the text without regard to case; "." stands for
\* any character.
str_contains(text, pat) ==
    \E i \in 1..(Len(text.s) - Len(pat.s) + 1) :
        \A j \in DOMAIN pat.s :
            pat.s[j] = "." \/ Lower(pat.s[j]) = Lower(text.s[i + j - 1])

SearchCols == {"name", "tags", "memo", "address"}

\* filtered[mask], mask the disjunction over the four columns.
FilterKeyword(df, kw) ==
    SelectSeq(df, LAMBDA r : \E c \in SearchCols : str_contains(astype_str(r[c]), kw))

\* The order of characters (their code points) and of texts.
Chars == <<" ", "(", "*", "-", ".", "A", "B", "N", "a", "b", "e", "n", "o", "w">>
Ord(c) == CHOOSE i \in DOMAIN Chars : Chars[i] = c

RECURSIVE StrLess(_, _)
StrLess(s, t) ==
    IF t = << >> THEN FALSE
    ELSE IF s = << >> THEN TRUE
    ELSE IF Head(s) # Head(t) THEN Ord(Head(s)) < Ord(Head(t))
    ELSE StrLess(Tail(s), Tail(t))

\* v comes before u in a column sorted descending (numbers and timestamps)
\* or ascending (texts); a missing value comes last either way.
DescBefore(v, u) == notna(v) /\ (~notna(u) \/ v.n > u.n)
AscBefore(v, u) == notna(v) /\ (~notna(u) \/ StrLess(v.s, u.s))
Tied(v, u) == (~notna(v) /\ ~notna(u)) \/ v = u

SortOptions == {"recent", "name", "rating"}

\* sort_values by the two columns of the option: r comes before q.
RowBefore(sort_option, r, q) ==
    CASE sort_option = "recent" ->
            \/ DescBefore(r.created_at, q.created_at)
            \/ Tied(r.created_at, q.created_at) /\ r.id.n > q.id.n
      [] sort_option = "name" ->
            \/ AscBefore(r.name, q.name)
            \/ Tied(r.name, q.name) /\ r.id.n < q.id.n
      [] sort_option = "rating" ->
            \/ DescBefore(r.rating, q.rating)
            \/ Tied(r.rating, q.rating) /\ DescBefore(r.created_at, q.created_at)

Remove(f, i) == SubSeq(f, 1, i - 1) \o SubSeq(f, i + 1, Len(f))

\* A stable sort: of the rows nothing comes before, the first one leads.
RECURSIVE sort_values(_, _)
sort_values(f, sort_option) ==
    IF f = << >> THEN << >>
    ELSE LET i == CHOOSE i \in DOMAIN f :
                      /\ \A j \in DOMAIN f : ~RowBefore(sort_option, f[j], f[i])
                      /\ \A j \in 1..(i - 1) : RowBefore(sort_option, f[i], f[j])
         IN  << f[i] >> \o sort_values(Remove(f, i), sort_option)

\* What the user types in the search field.
Keywords ==
    {Str(<<" ">>), Str(<<"B", " ">>), Str(<<"o", "n">>), Str(<<".">>), Str(<<"(">>)}

\* Thresholds of the rating slider of the map, in half stars.
MinRatings == {0, 7, 9}

\* What a page was asked, and the rows it shows.
Shown(selected_cat, show_only_favorite, min_rating, keyword, sort_option, filtered) ==
    [selected_cat |-> selected_cat, show_only_favorite |-> show_only_favorite,
     min_rating |-> min_rating, keyword |-> keyword, sort_option |-> sort_option,
     filtered |-> filtered]

\* page_map up to the drawing of the markers.
MapPage(selected_cat, show_only_favorite, min_rating) ==
    /\ connected
    /\ LET df_all == fetch_all_restaurants(db)
       IN  /\ selected_cat \in cat_options(df_all)
           /\ LET filtered ==
                      FilterRating(
                          FilterFavorite(FilterCategory(df_all, selected_cat),
                                         show_only_favorite),
                          min_rating)
              IN  last' = Call("map", "ok", 0,
                               Shown(selected_cat, show_only_favorite, min_rating,
                                     EmptyStr, "recent", filtered))
    /\ UNCHANGED <<db, connected, now, session_state>>

\* page_list up to the drawing of the cards; it returns at once when there
\* is no restaurant, and the page has no rating slider.
ListPage(selected_cat, show_only_favorite, keyword, sort_option) ==
    /\ connected
    /\ db.rows # {}
    /\ LET df_all == fetch_all_restaurants(db)
           kw == strip(keyword)
       IN  /\ selected_cat \in cat_options(df_all)
           /\ LET filtered ==
                      FilterFavorite(FilterCategory(df_all, selected_cat),
                                     show_only_favorite)
              IN  IF kw # EmptyStr /\ ReError(kw)
                  THEN last' = Call("list", "re.error", 0,
                                    Shown(selected_cat, show_only_favorite, 0,
                                          keyword, sort_option, << >>))
                  ELSE last' = Call("list", "ok", 0,
                                    Shown(selected_cat, show_only_favorite, 0,
                                          keyword, sort_option,
                                          sort_values(
                                              IF kw # EmptyStr
                                              THEN FilterKeyword(filtered, kw)
                                              ELSE filtered,
                                              sort_option)))
    /\ UNCHANGED <<db, connected, now, session_state>>

Categories == {Str(<<"a">>), All}

InitList ==
    /\ db \in CurrentTables
    /\ connected = TRUE
    /\ now \in 0..MaxTime
    /\ last = Call("none", "ok", 0, NoArgs)
    /\ session_state = init_session_state

NextList ==
    \/ \E w \in Forms : SaveNew(w)
    \/ \E i \in 1..MaxSeq : FavoriteButton(i)
    \/ \E c \in Categories, f \in BOOLEAN, m \in MinRatings : MapPage(c, f, m)
    \/ \E c \in Categories, f \in BOOLEAN, k \in Keywords, o \in SortOptions :
          ListPage(c, f, k, o)

SpecList == InitList /\ [][NextList]_vars

\* ----------------------------------------------------------------- claims

(***************************************************************************)
(* A claim about what a call does is an action property: it relates the    *)
(* database before a step (db) to the database after it (db').  A step is  *)
(* a call of op when it leaves the clock alone and ends with op as the     *)
(* last call; the time of the call is then now.                            *)
(***************************************************************************)

Step(op) == now' = now /\ last'.op = op

RowsOf(D, id) == {r \in D.rows : r.id = Num(id)}

DataOf(r) == Restrict(r, DataCols)

\* A record insert accepts: a name that is not empty, lat and lon present.
ValidRecord(a) ==
    /\ IsStr(a.name) /\ a.name # EmptyStr
    /\ IsNum(a.lat) /\ IsNum(a.lon)

\* C1: a call of insert_restaurant with a valid record succeeds; after it
\* fetch_restaurant_by_id returns for the new id a row that equals the
\* record on every supplied field, has favorite = 0 and created_at set to
\* the time of the call; the new id is the id of no row that was in the
\* table, and the rows that were in the table are as they were.
C1_InsertThenFetch ==
    [][(Step("insert") /\ ValidRecord(last'.args)) =>
        LET row == fetch_restaurant_by_id(db', last'.id)
        IN  /\ last'.out = "ok"
            /\ row # None
            /\ \A c \in DataCols : row[c] = last'.args[c]
            /\ row.favorite = Num(0)
            /\ row.created_at = Num(now)
            /\ last'.id \notin Ids(db)
            /\ Cardinality(RowsOf(db', last'.id)) = 1
            /\ db'.rows \ RowsOf(db', last'.id) = db.rows]_vars

\* C1 witness: a valid record, its lat and lon different, has been inserted
\* after the clock moved, into a table that holds another row.
C1_Witness ==
    /\ last.op = "insert" /\ ValidRecord(last.args) /\ last.out = "ok"
    /\ last.args.lat # last.args.lon
    /\ Cardinality(db.rows) >= 2
    /\ \E r \in RowsOf(db, last.id) : r.created_at # Num(0)

\* C2: update_restaurant and toggle_favorite called with an id that is not
\* in the table fail with NotFoundError and leave the table as it was.
C2_MissingIdFails ==
    [][((Step("update") \/ Step("toggle")) /\ last'.id \notin Ids(db)) =>
        (last'.out = "NotFoundError" /\ db' = db)]_vars

\* C3: no stored record has a name that is empty after trimming, whatever
\* forms were saved and whatever files were imported.
C3_NoBlankName ==
    connected => \A r \in db.rows : IsStr(r.name) /\ strip(r.name) # EmptyStr

\* C4: init_db completes without error on every table, leaves the full
\* column set, keeps every row's existing values, fills each added column
\* with its default, and changes nothing in a table that is already current.
C4_InitializeMigrates ==
    [][Step("init_db") =>
        /\ last'.out = "ok"
        /\ db'.cols = AllCols
        /\ Cardinality(db'.rows) = Cardinality(db.rows)
        /\ \A r \in db.rows : \E q \in db'.rows :
              /\ \A c \in db.cols : q[c] = r[c]
              /\ "favorite" \notin db.cols => q.favorite = Num(0)
              /\ "created_at" \notin db.cols => IsNum(q.created_at)
              /\ "updated_at" \notin db.cols => q.updated_at = None
        /\ (db.cols = AllCols => db' = db)]_vars

\* The table of a new, empty database.
EmptyTable == init_db(NoTable, 0).db

\* C5: the backup of the table, imported into an empty database, gives as
\* many records as the table has, the k-th line of the file becoming a
\* record equal on every data field to the record the line was written from.
C5_RoundTrip ==
    (connected /\ db.rows # {}) =>
        LET df_all == fetch_all_restaurants(db)
            r == ImportCsv(EmptyTable, now, to_csv(df_all))
        IN  /\ r.out = "ok"
            /\ Cardinality(r.db.rows) = Len(df_all)
            /\ \A i \in DOMAIN df_all :
                  \E q \in RowsOf(r.db, i) : DataOf(q) = DataOf(df_all[i])

\* C6: an import of a file whose header lacks name, lat or lon ends with the
\* import-format error and leaves the database as it was.
C6_MissingColumnRejected ==
    [][(Step("import") /\ ~(RequiredCols \subseteq Range(last'.args.header))) =>
        (last'.out = "ImportFormatError" /\ db' = db)]_vars

\* C6 witness: the file without a lon column was uploaded to a table that
\* holds a record, and rejected.
C6_Witness ==
    /\ last.op = "import"
    /\ last.args = CsvNoLon
    /\ last.out = "ImportFormatError"
    /\ db.rows # {}

\* C7: every stored rating is absent or within [0, 5], and no record is
\* stored with the rating zero (a rating of 0 is stored as absent).
C7_RatingInRange ==
    connected =>
        \A r \in db.rows :
            \/ r.rating = None
            \/ IsNum(r.rating) /\ r.rating.n \in 0..RatingMax /\ r.rating.n # 0

\* C8: update_restaurant on a stored id writes the given fields and
\* updated_at, keeps the row's id, created_at and favorite, and leaves every
\* other row, the columns and the id counter as they were.
C8_UpdateFrame ==
    [][(Step("update") /\ last'.out = "ok" /\ last'.id \in Ids(db)) =>
        /\ Cardinality(RowsOf(db, last'.id)) = 1
        /\ Cardinality(RowsOf(db', last'.id)) = 1
        /\ LET old == CHOOSE r \in db.rows : r.id = Num(last'.id)
               new == CHOOSE r \in db'.rows : r.id = Num(last'.id)
           IN  /\ \A c \in DataCols : new[c] = last'.args[c]
               /\ new.updated_at = Num(now)
               /\ new.created_at = old.created_at
               /\ new.favorite = old.favorite
               /\ db'.rows \ {new} = db.rows \ {old}
        /\ db'.cols = db.cols
        /\ db'.seq = db.seq]_vars

\* C8 witness: a favourite record has been given new fields at a time later
\* than its creation, while another record is stored.
C8_Witness ==
    /\ last.op = "update" /\ last.out = "ok"
    /\ Cardinality(db.rows) = 2
    /\ \E r \in RowsOf(db, last.id) :
          /\ r.favorite = Num(1)
          /\ IsNum(r.updated_at)
          /\ r.updated_at # r.created_at

\* C9: after update_restaurant and after toggle_favorite on a stored id the
\* row's updated_at is the time of the call.
C9_UpdatedAtSet ==
    [][((Step("update") \/ Step("toggle")) /\ last'.out = "ok") =>
        \A r \in RowsOf(db', last'.id) : r.updated_at = Num(now)]_vars

\* The card of record id in the list drawn from D.
CardOf(D, id) ==
    CHOOSE i \in DOMAIN fetch_all_restaurants(D) : fetch_all_restaurants(D)[i].id = Num(id)

\* C10: a click on the favourite button of a record changes nothing but that
\* record's favorite, and a second click on it, on the list read anew,
\* gives back the table as it was before the first.
C10_ToggleTwice ==
    [][Step("toggle") =>
        /\ FavoriteClick(db', CardOf(db', last'.id)).db = db
        /\ \E old \in db.rows, new \in db'.rows :
              /\ old.id = Num(last'.id)
              /\ new = [old EXCEPT !.favorite = new.favorite]
              /\ new.favorite # old.favorite
              /\ db'.rows \ {new} = db.rows \ {old}
        /\ db'.cols = db.cols /\ db'.seq = db.seq]_vars

\* C10 witness: a record the application inserted (favorite 0) has been
\* switched on and, by the last click, off again, next to another record.
C10_Witness ==
    /\ last.op = "toggle"
    /\ last.id = 2
    /\ Cardinality(db.rows) = 2
    /\ \E r \in RowsOf(db, 2) : r.favorite = Num(0)

\* C11: delete_restaurant with an id that is not in the table leaves the
\* table as it was; with an id that is in the table it removes that row and
\* no other, so fetch_all_restaurants returns one row fewer and every other
\* row as it was.
C11_DeleteFrame ==
    [][Step("delete") =>
        /\ last'.out = "ok"
        /\ last'.id \notin Ids(db) => db' = db
        /\ last'.id \in Ids(db) =>
              /\ Len(fetch_all_restaurants(db')) = Len(fetch_all_restaurants(db)) - 1
              /\ last'.id \notin Ids(db')
        /\ db'.rows = db.rows \ RowsOf(db, last'.id)
        /\ db'.cols = db.cols /\ db'.seq = db.seq]_vars

\* C11 witness: of the ids handed out only the one just deleted is gone, and
\* a record is left.
C11_Witness ==
    /\ last.op = "delete"
    /\ db.seq = MaxSeq
    /\ Ids(db) = (1..MaxSeq) \ {last.id}
    /\ db.rows # {}

\* C15: an import of a file whose header has name, lat and lon either
\* inserts every line of the file as a new record, or fails and leaves the
\* table as it was before the import.
C15_ImportAllOrNothing ==
    [][(Step("import") /\ RequiredCols \subseteq Range(last'.args.header)) =>
        \/ /\ last'.out = "ok"
           /\ db.rows \subseteq db'.rows
           /\ Cardinality(db'.rows) = Cardinality(db.rows) + Len(last'.args.rows)
        \/ /\ last'.out # "ok"
           /\ db' = db]_vars

\* The provider failed, or found nothing, or was given a blank address.
NothingFound(address, reply) ==
    \/ strip(address) = EmptyStr
    \/ reply.k \in {"None", "raise"}

\* C12: when the provider fails in any way, finds nothing or the address is
\* blank, geocode_address returns (None, None) and raises nothing, the
\* current position stays, and a save of a form with the user's own lat and
\* lon then succeeds.
C12_GeocodeNeverRaises ==
    [][(Step("geocode") /\ NothingFound(last'.args.address, last'.args.reply)) =>
        /\ last'.out = "ok"
        /\ last'.args.lat = None /\ last'.args.lon = None
        /\ session_state' = session_state
        /\ insert_restaurant(db', now', SaveArgs(FullForm)).out = "ok"]_vars

\* The text of a field, an absent field being the empty text.
TextOf(v) == IF notna(v) THEN v ELSE EmptyStr

\* pat occurs in text as it is written, letters compared without case.
OccursIn(pat, text) ==
    \E i \in 1..(Len(text.s) - Len(pat.s) + 1) :
        \A j \in DOMAIN pat.s : Lower(pat.s[j]) = Lower(text.s[i + j - 1])

\* C13: the list page raises no error for any keyword, and of the rows left
\* by the category and favourite filters it shows exactly those in which
\* the trimmed keyword occurs, without regard to case, in name, tags, memo
\* or address, an absent field counting as the empty text.
C13_KeywordSearch ==
    [][Step("list") =>
        LET q == last'.args
            kw == strip(q.keyword)
            base == FilterFavorite(FilterCategory(fetch_all_restaurants(db'), q.selected_cat),
                                   q.show_only_favorite)
        IN  /\ last'.out = "ok"
            /\ Range(q.filtered) =
                  {r \in Range(base) : \E c \in SearchCols : OccursIn(kw, TextOf(r[c]))}]_vars

\* A row passes every filter that is switched on.
Satisfies(r, q) ==
    /\ q.selected_cat # All => r.category = q.selected_cat
    /\ q.show_only_favorite => r.favorite = Num(1)
    /\ q.min_rating > 0 => (notna(r.rating) /\ r.rating.n >= q.min_rating)

\* C14: the map, and the list when nothing is searched for, show each row of
\* the table that passes every filter switched on once, and no other row:
\* the sentinel category and a threshold of 0 exclude nothing, the favourite
\* filter keeps favorite = 1, a threshold above 0 keeps the rows rated at
\* least that; a search on the list only takes rows away from these.
C14_FilterPipeline ==
    [][(Step("map") \/ (Step("list") /\ last'.out = "ok")) =>
        LET q == last'.args
            passing == {r \in db'.rows : Satisfies(r, q)}
        IN  /\ Len(q.filtered) = Cardinality(Range(q.filtered))
            /\ Range(q.filtered) \subseteq passing
            /\ (last'.op = "map" \/ strip(q.keyword) = EmptyStr) =>
                  Range(q.filtered) = passing]_vars

\* C14 witness: the map filtered by a category, by favourites and by a
\* rating floor shows a record and leaves out another.
C14_Witness ==
    /\ last.op = "map"
    /\ last.args.selected_cat # All
    /\ last.args.show_only_favorite
    /\ last.args.min_rating > 0
    /\ last.args.filtered # << >>
    /\ Len(last.args.filtered) < Cardinality(db.rows)

====
